---- MODULE Spec2Model ----
(***************************************************************************)
(* A model of the FPGA design automation loop of gundralaa/psychic-train:  *)
(*   src/automation_loop.py      update_memory_scala, run_automation_loop  *)
(*   src/mcp-fpga-agent/server.py  synthesize_design, flash_fpga,          *)
(*                                 analyze_design                          *)
(*                                                                         *)
(* Texts (file contents, reports, program lines) are TLA+ strings, on      *)
(* which TLC evaluates Len, \o and SubSeq character by character.  Python  *)
(* indices are 0-based and are kept 0-based here; SubSeq is 1-based.       *)
(*                                                                         *)
(* Three specifications share the variables:                               *)
(*   SpecPatch  update_memory_scala called directly, on bounded file       *)
(*              contents and replacement lists, with a concurrent reader   *)
(*              and cancellation;                                          *)
(*   SpecScore  the scoring step (lines 162-169) on bounded elapsed times  *)
(*              and report texts;                                          *)
(*   Spec       one run of run_automation_loop.                            *)
(*                                                                         *)
(* Floats are modelled as exact rationals <<num, den>> in lowest terms:    *)
(* time in milliseconds, so rounding of the IEEE operations is not         *)
(* modelled.                                                               *)
(***************************************************************************)
EXTENDS Integers, Sequences, FiniteSets, TLC

VARIABLES
  \* ---- the file system
  file_exists,     \* os.path.exists(path) of Memory.scala
  disk,            \* the bytes of Memory.scala on disk
  bitstream_exists,\* os.path.exists("/workspace/build/Top.bit")
  \* ---- update_memory_scala
  pc,              \* position inside update_memory_scala
  program_lines,   \* its argument
  content,         \* local: the text read (line 75)
  new_content,     \* local: the text to write (line 87)
  ret,             \* its last return value: "none", "True", "False"
  \* ---- history of the calls (not program state)
  original,        \* disk at the entry of the current call
  orig_exists,     \* file_exists at the entry of the current call
  prev_ok,         \* the previous call's return value
  prev_content,    \* disk when the previous call returned
  calls,           \* number of calls started
  observed,        \* what a concurrent reader last read during this call
  \* ---- the environment of a run
  use_mocks,       \* the import of server.py failed (lines 12-37)
  cwd_is_workspace,\* os.path.abspath("build") = "/workspace/build"
  xdc_exists,      \* constraints/arty_a7_100t.xdc exists
  sentinel_delivered, \* the device sends 'D' on the UART during the run
  \* ---- run_automation_loop
  stage,           \* position inside run_automation_loop
  build_status,    \* "not_run", "ok", "failed", "exception"
  invoked,         \* the external tools called so far in this run
  synth_res, flash_res, \* what the tools returned
  exec_time,       \* end_time - start_time, in milliseconds
  util_report,     \* analyze_design("utilization")
  lut_usage,       \* parsed percentage
  score,           \* <<num, den>>, or NoScore
  error            \* the exception that ended the run, or "none"

patchVars == <<pc, program_lines, content, new_content, ret>>
histVars  == <<original, orig_exists, prev_ok, prev_content, calls, observed>>
envVars   == <<use_mocks, cwd_is_workspace, xdc_exists, sentinel_delivered>>
runVars   == <<stage, build_status, invoked, synth_res, flash_res, exec_time,
               util_report, lut_usage, score, error>>
vars == <<file_exists, disk, bitstream_exists, patchVars, histVars, envVars, runVars>>

----------------------------------------------------------------------------
(* Bounds of the model                                                     *)

\* file contents are concatenations of at most MaxChunks chunks
MaxChunks == 3
\* replacement lists have at most MaxLines lines
MaxLines == 2
\* update_memory_scala is called at most MaxCalls times on the same file
MaxCalls == 2
\* the written text reaches the disk in blocks of BlockSize characters
BlockSize == 40
\* the measured time exceeds the sleep by at most MaxJitterMs
MaxJitterMs == 2
\* elapsed times 1..MaxTimeMs are scored besides the sample times
MaxTimeMs == 3

----------------------------------------------------------------------------
(* Python's str operations                                                 *)

MinOf(S) == CHOOSE x \in S : \A y \in S : x <= y

\* the normalisation of a slice bound or of find's start argument
PyIndex(s, k) ==
  IF k < 0 THEN (IF k + Len(s) < 0 THEN 0 ELSE k + Len(s))
  ELSE (IF k > Len(s) THEN Len(s) ELSE k)

\* s[:k]
SliceTo(s, k) == SubSeq(s, 1, PyIndex(s, k))

\* s[k:]
SliceFrom(s, k) == SubSeq(s, PyIndex(s, k) + 1, Len(s))

\* s[i:i+len(sub)] == sub, i 0-based
OccursAt(s, sub, i) ==
  /\ i >= 0
  /\ i + Len(sub) <= Len(s)
  /\ SubSeq(s, i + 1, i + Len(sub)) = sub

\* s.find(sub, start): the lowest index >= start of an occurrence, or -1
Find(s, sub, start) ==
  LET from == IF start < 0 THEN (IF start + Len(s) < 0 THEN 0 ELSE start + Len(s))
              ELSE start
      hits == {i \in from..(Len(s) - Len(sub)) : OccursAt(s, sub, i)}
  IN IF hits = {} THEN -1 ELSE MinOf(hits)

\* sep.join(lines)
RECURSIVE Join(_, _)
Join(sep, lines) ==
  IF Len(lines) = 0 THEN ""
  ELSE IF Len(lines) = 1 THEN lines[1]
  ELSE lines[1] \o sep \o Join(sep, Tail(lines))

----------------------------------------------------------------------------
(* update_memory_scala                                                     *)

start_marker == "val program = VecInit(Seq("
end_marker == "))"

MATMUL_PROGRAM == <<
  "\"h200001B7\".U(32.W)",
  "\"h00A00093\".U(32.W)",
  "\"h01400113\".U(32.W)",
  "\"h06400293\".U(32.W)",
  "\"h00208233\".U(32.W)",
  "\"hFFF28293\".U(32.W)",
  "\"hFE029CE3\".U(32.W)",
  "\"h0041A303\".U(32.W)",
  "\"h00237313\".U(32.W)",
  "\"hFE030CE3\".U(32.W)",
  "\"h04400393\".U(32.W)",
  "\"h0071A023\".U(32.W)",
  "\"h0000006F\".U(32.W)" >>

\* line 80
StartIdx(c) == Find(c, start_marker, 0)

\* line 81: the search starts AT start_idx (which may be -1)
EndIdx(c, start_idx) == Find(c, end_marker, start_idx)

\* line 83, with `and` for `or`
MarkersMissing_and(start_idx, end_idx) == start_idx = -1 /\ end_idx = -1

\* line 83
MarkersMissing(start_idx, end_idx) == start_idx = -1 \/ end_idx = -1

\* the text put between the markers (line 87)
JoinedIndented(lines) == "\n    " \o Join(",\n    ", lines) \o "\n  "

\* line 87, dropping the end marker from the kept tail
NewContent_dropsEnd(c, start_idx, end_idx, lines) ==
  SliceTo(c, start_idx + Len(start_marker)) \o JoinedIndented(lines)
    \o SliceFrom(c, end_idx + Len(end_marker))

\* line 87, inserting after the start marker without skipping the old region
NewContent_inserts(c, start_idx, end_idx, lines) ==
  SliceTo(c, start_idx + Len(start_marker)) \o JoinedIndented(lines)
    \o SliceFrom(c, start_idx + Len(start_marker))

\* line 87
NewContent(c, start_idx, end_idx, lines) ==
  SliceTo(c, start_idx + Len(start_marker)) \o JoinedIndented(lines)
    \o SliceFrom(c, end_idx)

\* lines 69-87: the existence check, the read, the search and the new text.
\* Nothing is written here.
UpdateReadAndFind ==
  /\ pc = "call"
  /\ IF ~file_exists
     THEN /\ ret' = "False"                                   \* lines 70-72
          /\ pc' = "ret"
          /\ UNCHANGED <<content, new_content>>
     ELSE LET c == disk                                        \* lines 74-75
              s == StartIdx(c)
              e == EndIdx(c, s)
          IN /\ content' = c
             /\ IF MarkersMissing(s, e)
                THEN /\ ret' = "False"                         \* lines 83-85
                     /\ pc' = "ret"
                     /\ UNCHANGED new_content
                ELSE /\ new_content' = NewContent(c, s, e, program_lines)
                     /\ pc' = "open"
                     /\ UNCHANGED ret
  /\ UNCHANGED <<file_exists, disk, bitstream_exists, program_lines,
                 histVars, envVars, runVars>>

\* line 89: open(path, "w") truncates the file
UpdateOpen ==
  /\ pc = "open"
  /\ disk' = ""
  /\ file_exists' = TRUE
  /\ pc' = "write"
  /\ UNCHANGED <<bitstream_exists, program_lines, content, new_content, ret,
                 histVars, envVars, runVars>>

\* line 90: the text reaches the file a block at a time
UpdateWriteBlock ==
  /\ pc = "write"
  /\ Len(disk) < Len(new_content)
  /\ LET upto == IF Len(disk) + BlockSize > Len(new_content)
                 THEN Len(new_content) ELSE Len(disk) + BlockSize
     IN disk' = SubSeq(new_content, 1, upto)
  /\ UNCHANGED <<file_exists, bitstream_exists, patchVars, histVars, envVars, runVars>>

\* lines 90-92: the file is closed with everything written; return True
UpdateClose ==
  /\ pc = "write"
  /\ Len(disk) = Len(new_content)
  /\ ret' = "True"
  /\ pc' = "ret"
  /\ UNCHANGED <<file_exists, disk, bitstream_exists, program_lines, content,
                 new_content, histVars, envVars, runVars>>

\* another process reads Memory.scala while update_memory_scala runs
ConcurrentRead ==
  /\ pc \in {"call", "open", "write"}
  /\ file_exists
  /\ observed' = disk
  /\ UNCHANGED <<file_exists, disk, bitstream_exists, patchVars, original,
                 orig_exists, prev_ok, prev_content, calls, envVars, runVars>>

\* the run is cancelled (the task is killed) inside update_memory_scala
CancelRun ==
  /\ pc \in {"call", "open", "write"}
  /\ pc' = "cancelled"
  /\ UNCHANGED <<file_exists, disk, bitstream_exists, program_lines, content,
                 new_content, ret, histVars, envVars, runVars>>

\* a caller invokes update_memory_scala(program_lines), again after a return
CallUpdate ==
  /\ stage = "direct"
  /\ pc \in {"idle", "ret"}
  /\ calls < MaxCalls
  /\ pc' = "call"
  /\ calls' = calls + 1
  /\ original' = disk
  /\ orig_exists' = file_exists
  /\ prev_ok' = ret
  /\ prev_content' = disk
  /\ observed' = "<not read>"
  /\ UNCHANGED <<file_exists, disk, bitstream_exists, program_lines, content,
                 new_content, ret, envVars, runVars>>

----------------------------------------------------------------------------
(* The scoring step of run_automation_loop (lines 162-169)                 *)

NoScore == <<0, 0>>

RECURSIVE GCD(_, _)
GCD(a, b) == IF b = 0 THEN a ELSE GCD(b, a % b)

\* the rational n/d in lowest terms (d > 0)
Frac(n, d) == <<n \div GCD(n, d), d \div GCD(n, d)>>

Digits == {"0", "1", "2", "3", "4", "5", "6", "7", "8", "9"}

DigitVal(ch) ==
  CASE ch = "0" -> 0 [] ch = "1" -> 1 [] ch = "2" -> 2 [] ch = "3" -> 3
    [] ch = "4" -> 4 [] ch = "5" -> 5 [] ch = "6" -> 6 [] ch = "7" -> 7
    [] ch = "8" -> 8 [] ch = "9" -> 9

\* int(s) of a non-empty string of digits
RECURSIVE ParseInt(_)
ParseInt(s) ==
  IF Len(s) = 0 THEN 0
  ELSE 10 * ParseInt(SubSeq(s, 1, Len(s) - 1)) + DigitVal(SubSeq(s, Len(s), Len(s)))

CharAt(s, i) == IF i >= 0 /\ i < Len(s) THEN SubSeq(s, i + 1, i + 1) ELSE ""

\* the index after the longest run of digits that starts at i
RECURSIVE DigitsEnd(_, _)
DigitsEnd(s, i) == IF CharAt(s, i) \in Digits THEN DigitsEnd(s, i + 1) ELSE i

lut_prefix == "LUT: "

\* r"LUT: (\d+)%" matches at i: \d+ is greedy, and giving digits back never
\* helps, since the character after a shorter run is a digit and not "%"
MatchesAt(s, i) ==
  /\ OccursAt(s, lut_prefix, i)
  /\ DigitsEnd(s, i + Len(lut_prefix)) > i + Len(lut_prefix)
  /\ CharAt(s, DigitsEnd(s, i + Len(lut_prefix))) = "%"

\* re.search(r"LUT: (\d+)%", s): the index of the leftmost match, or -1
LutSearch(s) ==
  LET hits == {i \in 0..(Len(s) - 1) : MatchesAt(s, i)}
  IN IF hits = {} THEN -1 ELSE MinOf(hits)

\* lut_match.group(1)
LutGroup1(s, i) ==
  SubSeq(s, i + Len(lut_prefix) + 1, DigitsEnd(s, i + Len(lut_prefix)))

\* line 165, with 1 for the default
LutUsage_default1(report) ==
  IF LutSearch(report) /= -1 THEN ParseInt(LutGroup1(report, LutSearch(report))) ELSE 1

\* line 165
LutUsage(report) ==
  IF LutSearch(report) /= -1 THEN ParseInt(LutGroup1(report, LutSearch(report))) ELSE 100

\* either division of line 169 raises ZeroDivisionError
ScoreRaises(t_ms, u) == t_ms = 0 \/ u = 0

\* line 169 as the comment of line 167 has it: (1/Time) * (1/Space) * 1000
ScoreOf_inverseSpace(t_ms, u) == Frac(1000 * 1 * 1000, t_ms * u)

\* line 169: (1.0 / exec_time) * (100.0 / lut_usage) * 1000, exec_time = t_ms / 1000 s
ScoreOf(t_ms, u) == Frac(1000 * 100 * 1000, t_ms * u)

\* lines 162-177: parse the report, compute and print the score
ScoreStep ==
  /\ stage = "score"
  /\ lut_usage' = LutUsage(util_report)
  /\ IF ScoreRaises(exec_time, LutUsage(util_report))
     THEN /\ error' = "ZeroDivisionError"
          /\ stage' = "crashed"
          /\ UNCHANGED score
     ELSE /\ score' = ScoreOf(exec_time, LutUsage(util_report))
          /\ stage' = "done"
          /\ UNCHANGED error
  /\ UNCHANGED <<file_exists, disk, bitstream_exists, patchVars, histVars, envVars,
                 build_status, invoked, synth_res, flash_res, exec_time, util_report>>

----------------------------------------------------------------------------
(* run_automation_loop and the tools it calls                              *)

\* time.sleep(1.234), in milliseconds
SleepMs == 1234

Toolchain == {"synthesize_design", "flash_fpga", "analyze_design"}

\* os.path.abspath("build")
build_dir == IF cwd_is_workspace THEN "/workspace/build" ELSE "/workspace/mcp-fpga-agent/build"

mock_utilization == "LUT: 45%, FF: 30%, BRAM: 10%"

\* lines 97-99: step 1 calls update_memory_scala(MATMUL_PROGRAM)
Step1Call ==
  /\ stage = "start"
  /\ pc = "idle"
  /\ stage' = "step1"
  /\ pc' = "call"
  /\ calls' = calls + 1
  /\ original' = disk
  /\ orig_exists' = file_exists
  /\ prev_ok' = ret
  /\ prev_content' = disk
  /\ observed' = "<not read>"
  /\ UNCHANGED <<file_exists, disk, bitstream_exists, program_lines, content,
                 new_content, ret, envVars, build_status, invoked, synth_res,
                 flash_res, exec_time, util_report, lut_usage, score, error>>

\* lines 99-100, going on to the build whatever update_memory_scala returned
Step1Return_goesOn ==
  /\ stage = "step1"
  /\ pc = "ret"
  /\ pc' = "idle"
  /\ stage' = "build"
  /\ UNCHANGED <<file_exists, disk, bitstream_exists, program_lines, content,
                 new_content, ret, histVars, envVars, build_status, invoked,
                 synth_res, flash_res, exec_time, util_report, lut_usage, score, error>>

\* lines 99-100: `if not update_memory_scala(...): return`
Step1Return ==
  /\ stage = "step1"
  /\ pc = "ret"
  /\ pc' = "idle"
  /\ stage' = IF ret = "False" THEN "returned" ELSE "build"
  /\ UNCHANGED <<file_exists, disk, bitstream_exists, program_lines, content,
                 new_content, ret, histVars, envVars, build_status, invoked,
                 synth_res, flash_res, exec_time, util_report, lut_usage, score, error>>

\* lines 104-121: sbt ran and exited with returncode rc; a non-zero rc is
\* printed ("Build Failed!") and the run goes on to step 3
BuildCompletes ==
  /\ stage = "build"
  /\ \E rc \in {0, 1} :
       build_status' = IF rc /= 0 THEN "failed" ELSE "ok"
  /\ invoked' = invoked \cup {"sbt"}
  /\ stage' = "synth"
  /\ UNCHANGED <<file_exists, disk, bitstream_exists, patchVars, histVars, envVars,
                 synth_res, flash_res, exec_time, util_report, lut_usage, score, error>>

\* lines 122-124: subprocess.run raised (sbt not found): print and return
BuildCannotStart ==
  /\ stage = "build"
  /\ build_status' = "exception"
  /\ invoked' = invoked \cup {"sbt"}
  /\ stage' = "returned"
  /\ UNCHANGED <<file_exists, disk, bitstream_exists, patchVars, histVars, envVars,
                 synth_res, flash_res, exec_time, util_report, lut_usage, score, error>>

\* lines 126-131; server.py synthesize_design (86-128) or the local mock (18-28).
\* The bitstream is written to abspath("build")/Top.bit.
Synthesize ==
  /\ stage = "synth"
  /\ invoked' = invoked \cup {"synthesize_design"}
  /\ IF ~use_mocks /\ ~xdc_exists
     THEN /\ synth_res' = "Error: Default constraint file not found"
          /\ UNCHANGED bitstream_exists
     ELSE /\ synth_res' = IF use_mocks THEN "Synthesis Complete (Mock)"
                          ELSE "Synthesis process initiated"
          /\ bitstream_exists' = (bitstream_exists \/ cwd_is_workspace)
  /\ stage' = "flash"
  /\ UNCHANGED <<file_exists, disk, patchVars, histVars, envVars, build_status,
                 flash_res, exec_time, util_report, lut_usage, score, error>>

\* lines 133-136; server.py flash_fpga (131-145) or the local mock (30-32).
\* The returned text is printed; the run goes on to step 5.
Flash ==
  /\ stage = "flash"
  /\ invoked' = invoked \cup {"flash_fpga"}
  /\ flash_res' = IF use_mocks THEN "Device Flashed (Mock)"
                  ELSE IF ~bitstream_exists
                       THEN "Error: Bitstream /workspace/build/Top.bit not found."
                       ELSE "Generated programming script. (Mock) Device flashed successfully."
  /\ stage' = "monitor"
  /\ UNCHANGED <<file_exists, disk, bitstream_exists, patchVars, histVars, envVars,
                 build_status, synth_res, exec_time, util_report, lut_usage, score, error>>

\* lines 138-155: the UART is not read; the step sleeps and measures the sleep
Monitor ==
  /\ stage = "monitor"
  /\ \E jitter \in 0..MaxJitterMs : exec_time' = SleepMs + jitter
  /\ stage' = "analyze"
  /\ UNCHANGED <<file_exists, disk, bitstream_exists, patchVars, histVars, envVars,
                 build_status, invoked, synth_res, flash_res, util_report,
                 lut_usage, score, error>>

\* lines 159-160; server.py analyze_design (161-182) or the local mock (34-37)
Analyze ==
  /\ stage = "analyze"
  /\ invoked' = invoked \cup {"analyze_design"}
  /\ util_report' = IF use_mocks THEN mock_utilization
                    ELSE "Reading " \o build_dir \o "/post_route_util.rpt...\n(Mock) "
                           \o mock_utilization
  /\ stage' = "score"
  /\ UNCHANGED <<file_exists, disk, bitstream_exists, patchVars, histVars, envVars,
                 build_status, synth_res, flash_res, exec_time, lut_usage, score, error>>

----------------------------------------------------------------------------
(* Initial states and specifications                                       *)

PatchIdle ==
  /\ pc = "idle" /\ content = "" /\ new_content = "" /\ ret = "none"
  /\ original = disk /\ orig_exists = file_exists
  /\ prev_ok = "none" /\ prev_content = disk /\ calls = 0
  /\ observed = "<not read>"

RunIdle ==
  /\ build_status = "not_run" /\ invoked = {}
  /\ synth_res = "" /\ flash_res = ""
  /\ lut_usage = 0 /\ score = NoScore /\ error = "none"

\* the pieces file contents are made of: the markers, half an end marker,
\* a start marker short of its last character, and other text
Chunks == {start_marker, end_marker, ")", "x", "val program = VecInit(Seq"}

RECURSIVE Concats(_)
Concats(n) ==
  IF n = 0 THEN {""}
  ELSE LET shorter == Concats(n - 1)
       IN shorter \cup {p \o c : p \in shorter, c \in Chunks}

Contents == Concats(MaxChunks)

\* the lines replacement lists are made of
LineChoices == {"\"h0000006F\".U(32.W)", "f(g(x))", start_marker}

RECURSIVE ListsUpTo(_)
ListsUpTo(n) ==
  IF n = 0 THEN {<<>>}
  ELSE LET shorter == ListsUpTo(n - 1)
       IN shorter \cup {Append(l, x) : l \in shorter, x \in LineChoices}

ReplacementLists == ListsUpTo(MaxLines)

InitPatch ==
  /\ file_exists \in BOOLEAN
  /\ disk \in (IF file_exists THEN Contents ELSE {""})
  /\ program_lines \in ReplacementLists
  /\ PatchIdle
  /\ stage = "direct"
  /\ RunIdle /\ exec_time = 0 /\ util_report = ""
  /\ bitstream_exists = FALSE
  /\ use_mocks = TRUE /\ cwd_is_workspace = TRUE /\ xdc_exists = TRUE
  /\ sentinel_delivered = TRUE

NextPatch ==
  \/ CallUpdate
  \/ UpdateReadAndFind
  \/ UpdateOpen
  \/ UpdateWriteBlock
  \/ UpdateClose
  \/ ConcurrentRead
  \/ CancelRun

SpecPatch == InitPatch /\ [][NextPatch]_vars

\* report texts: a prefix, a key, digits, a suffix
ReportPrefixes ==
  {"", "Reading /workspace/build/post_route_util.rpt...\n(Mock) ", "FF: 30%, ", "LUT: x% "}
ReportKeys == {"LUT: ", "LUT:", "SLUT: ", "lut: "}
ReportDigits == {"", "0", "1", "25", "45", "50", "100", "007", "250"}
ReportSuffixes == {"%", "", " %", "%, FF: 30%, BRAM: 10%"}

Reports ==
  {p \o k \o d \o s : p \in ReportPrefixes, k \in ReportKeys,
                      d \in ReportDigits, s \in ReportSuffixes}

\* elapsed times, in milliseconds
Times == (1..MaxTimeMs) \cup {1000, SleepMs, 2000}

InitScore ==
  /\ stage = "score"
  /\ exec_time \in Times
  /\ util_report \in Reports
  /\ RunIdle
  /\ file_exists = FALSE /\ disk = ""
  /\ program_lines = MATMUL_PROGRAM
  /\ PatchIdle
  /\ bitstream_exists = FALSE
  /\ use_mocks = TRUE /\ cwd_is_workspace = TRUE /\ xdc_exists = TRUE
  /\ sentinel_delivered = TRUE

NextScore == ScoreStep

SpecScore == InitScore /\ [][NextScore]_vars

\* Memory.scala as a run may find it
RunFiles ==
  {"class Memory {\n  val program = VecInit(Seq(\n    \"h00000013\".U(32.W)\n  ))\n}\n",
   "class Memory {\n}\n",
   "  val program = VecInit(Seq(\n    \"h00000013\".U(32.W)\n"}

Init ==
  /\ file_exists \in BOOLEAN
  /\ disk \in (IF file_exists THEN RunFiles ELSE {""})
  /\ program_lines = MATMUL_PROGRAM
  /\ PatchIdle
  /\ stage = "start"
  /\ RunIdle /\ exec_time = 0 /\ util_report = ""
  /\ bitstream_exists \in BOOLEAN
  /\ use_mocks \in BOOLEAN
  /\ cwd_is_workspace \in BOOLEAN
  /\ xdc_exists \in BOOLEAN
  /\ sentinel_delivered \in BOOLEAN

Next ==
  \/ Step1Call
  \/ UpdateReadAndFind
  \/ UpdateOpen
  \/ UpdateWriteBlock
  \/ UpdateClose
  \/ Step1Return
  \/ BuildCompletes
  \/ BuildCannotStart
  \/ Synthesize
  \/ Flash
  \/ Monitor
  \/ Analyze
  \/ ScoreStep

Spec == Init /\ [][Next]_vars

----------------------------------------------------------------------------
(* What the specification says of a patched file, stated without the       *)
(* patcher's own search                                                    *)

HasStart(c) == \E i \in 0..Len(c) : OccursAt(c, start_marker, i)

FirstStart(c) == MinOf({i \in 0..Len(c) : OccursAt(c, start_marker, i)})

\* the places of the end marker after the end of the first start marker
EndsAfterStart(c) ==
  {j \in (FirstStart(c) + Len(start_marker))..Len(c) : OccursAt(c, end_marker, j)}

\* the start marker occurs, and the end marker occurs after it
MarkersPresent(c) == HasStart(c) /\ EndsAfterStart(c) /= {}

UpToStart(c) == SubSeq(c, 1, FirstStart(c) + Len(start_marker))

TextBetween(c) ==
  SubSeq(c, FirstStart(c) + Len(start_marker) + 1, MinOf(EndsAfterStart(c)))

FromEnd(c) == SubSeq(c, MinOf(EndsAfterStart(c)) + 1, Len(c))

\* no line of the replacement list contains the end marker
NoEndMarkerIn(lines) ==
  \A k \in 1..Len(lines) : \A i \in 0..Len(lines[k]) : ~OccursAt(lines[k], end_marker, i)

\* the file, read back, holds the replacement between its markers and the
\* original text around them
ReadBackIsPatched ==
  /\ MarkersPresent(disk)
  /\ TextBetween(disk) = JoinedIndented(program_lines)
  /\ UpToStart(disk) = UpToStart(original)
  /\ FromEnd(disk) = FromEnd(original)

\* the complete new content the patch is to produce
ExpectedNew(c, lines) == UpToStart(c) \o JoinedIndented(lines) \o FromEnd(c)

\* the report holds "LUT: <integer>%" somewhere
ContainsPattern(s) ==
  \E i \in 0..Len(s) : \E j \in 0..Len(s) :
    /\ OccursAt(s, lut_prefix, i)
    /\ j > i + Len(lut_prefix)
    /\ \A k \in (i + Len(lut_prefix))..(j - 1) : CharAt(s, k) \in Digits
    /\ CharAt(s, j) = "%"

AfterMonitor == {"analyze", "score", "done", "crashed"}

----------------------------------------------------------------------------
(* The claims                                                              *)

\* C1 (SpecPatch): when the file is missing, or its content lacks the start
\* marker or lacks the end marker after the start marker, the call never
\* opens the file for writing, the file stays byte-for-byte what it was at
\* the call's entry, and the call returns False.
C1_FailureLeavesFileUnchanged ==
  (calls > 0 /\ ~(orig_exists /\ MarkersPresent(original))) =>
    /\ pc \notin {"open", "write"}
    /\ disk = original
    /\ file_exists = orig_exists
    /\ (pc = "ret" => ret = "False")

\* C1 witness: a file that has the start marker and no end marker after it;
\* the call has returned False and the file is as it was.
C1_Witness ==
  /\ pc = "ret" /\ ret = "False"
  /\ orig_exists /\ HasStart(original) /\ ~MarkersPresent(original)
  /\ disk = original

\* C5 as stated (SpecPatch): after every successful call, for every
\* replacement list, the file read back holds exactly the joined-and-indented
\* replacement between the start marker and the end marker, and the text up to
\* and including the start marker and from the end marker on is the original's.
C5_ReadBackAnyList ==
  (pc = "ret" /\ ret = "True") => ReadBackIsPatched

\* C5 amended (SpecPatch): the same, for replacement lists none of whose lines
\* contains the end marker.
C5_ReadBackListWithoutEndMarker ==
  (pc = "ret" /\ ret = "True" /\ NoEndMarkerIn(program_lines)) => ReadBackIsPatched

\* C5 witness: a successful patch with a two-line list without end marker
\* that changed the file.
C5_Witness ==
  /\ pc = "ret" /\ ret = "True"
  /\ Len(program_lines) = 2 /\ NoEndMarkerIn(program_lines)
  /\ disk /= original
  /\ ReadBackIsPatched

\* C6 as stated (SpecPatch): a call that follows a successful call with the
\* same replacement list succeeds and leaves the file as the first call left it.
C6_ReapplyAnyList ==
  (pc = "ret" /\ calls >= 2 /\ prev_ok = "True") =>
    (ret = "True" /\ disk = prev_content)

\* C6 amended (SpecPatch): the same, for replacement lists none of whose lines
\* contains the end marker.
C6_ReapplyListWithoutEndMarker ==
  (pc = "ret" /\ calls >= 2 /\ prev_ok = "True" /\ NoEndMarkerIn(program_lines)) =>
    (ret = "True" /\ disk = prev_content)

\* C6 witness: the second call has returned True after a successful first
\* call with a non-empty list, and the file is what the first call left.
C6_Witness ==
  /\ pc = "ret" /\ calls = 2 /\ prev_ok = "True" /\ ret = "True"
  /\ Len(program_lines) > 0 /\ NoEndMarkerIn(program_lines)
  /\ disk = prev_content

\* C7 (SpecPatch): while a call patches a file that has both markers, a
\* concurrent reader reads either the complete original or the complete new
\* content, and a cancelled call leaves one of the two on disk.
C7_AtomicWrite ==
  (calls > 0 /\ orig_exists /\ MarkersPresent(original)) =>
    /\ observed \in {"<not read>", original, ExpectedNew(original, program_lines)}
    /\ (pc = "cancelled" =>
          disk \in {original, ExpectedNew(original, program_lines)})

\* C2 (Spec): when the build exits with a non-zero code, none of
\* synthesize_design, flash_fpga, analyze_design is called and no score is
\* computed.
C2_BuildFailureAborts ==
  build_status = "failed" => (invoked \cap Toolchain = {} /\ score = NoScore)

\* C3 (Spec): when flash_fpga finds no bitstream at the path, analyze_design
\* is not called and no score is computed.
C3_MissingBitstreamAborts ==
  flash_res = "Error: Bitstream /workspace/build/Top.bit not found." =>
    ("analyze_design" \notin invoked /\ score = NoScore)

\* C8 (Spec): when the device never delivers the sentinel byte, the
\* completion-monitoring step ends with CompletionTimeout and no score is
\* computed.
C8_NoSentinelTimesOut ==
  (~sentinel_delivered /\ stage \in AfterMonitor) =>
    (error = "CompletionTimeout" /\ score = NoScore)

\* C9 (Spec): when update_memory_scala returns False the build is not
\* invoked; when it returns False or the build process cannot be started,
\* none of synthesize_design, flash_fpga, analyze_design is called and no
\* score is computed.
C9_EarlyFailureTouchesNoTool ==
  /\ ret = "False" => ("sbt" \notin invoked /\ build_status = "not_run")
  /\ (ret = "False" \/ build_status = "exception") =>
       (invoked \cap Toolchain = {} /\ score = NoScore /\ stage \in {"step1", "returned"})

\* C9 witness: the run has returned after update_memory_scala failed on an
\* existing file without the markers.
C9_Witness ==
  /\ stage = "returned" /\ ret = "False" /\ orig_exists
  /\ invoked = {}

\* C4 (SpecScore): a report stating exactly 0% is scored as 1%, without an
\* error.
C4_ZeroIsClamped ==
  (stage /= "score" /\ ContainsPattern(util_report) /\ lut_usage = 0) =>
    (error = "none" /\ score = ScoreOf(exec_time, 1))

\* C10 (SpecScore): a report that does not contain "LUT: <integer>%" is
\* scored, without an error, exactly as the report "LUT: 100%" is.
C10_MissingMetricScoresAs100 ==
  (stage /= "score" /\ ~ContainsPattern(util_report)) =>
    /\ stage = "done"
    /\ error = "none"
    /\ score = ScoreOf(exec_time, LutUsage("LUT: 100%"))

\* C10 witness: a report with the key and no percentage has been scored.
C10_Witness ==
  /\ stage = "done"
  /\ ~ContainsPattern(util_report)
  /\ OccursAt(util_report, lut_prefix, 0)
  /\ exec_time = SleepMs
  /\ score = Frac(100000000, SleepMs * 100)

\* the rational a/b is less than the rational c/d (a, c >= 0 and b, d > 0),
\* compared by quotients and remainders so that no product is formed
RECURSIVE FracLess(_, _, _, _)
FracLess(a, b, c, d) ==
  IF a \div b /= c \div d THEN a \div b < c \div d
  ELSE IF c % d = 0 THEN FALSE
  ELSE IF a % b = 0 THEN TRUE
  ELSE FracLess(d, c % d, b, a % b)

\* the fraction sc in lowest terms is 100000 / ((t_ms / 1000) * u), that is
\* sc * t * u = 100000 with t in seconds: sc[1] * (t_ms * u) = 100000000 * sc[2]
ScoreTimesTimeTimesSpaceIs100000(sc, t_ms, u) ==
  /\ sc[2] > 0
  /\ (t_ms * u) % sc[2] = 0
  /\ 100000000 % ((t_ms * u) \div sc[2]) = 0
  /\ sc[1] = 100000000 \div ((t_ms * u) \div sc[2])

====
